---- MODULE Spec2Model ----
(***************************************************************************)
(* State-machine model of the IMDb language scraper: the record store      *)
(* (db_connector.py), the page classifier (imdb_scraper.py), the batch      *)
(* runner and the iteration controller (controller.py), the configuration   *)
(* file with its stop flags (config.py) and the two launchers               *)
(* (run_scraper.py, run_scraper_add1.py).                                   *)
(***************************************************************************)
EXTENDS Integers, Sequences, FiniteSets, TLC

(* ------------------------------ bounds --------------------------------- *)

\* Number of rows of title_basics in the modelled store.
NumRecords == 2

\* config.BATCH_SIZE as written in config.py (150 there), scaled to the store.
FileBatchSize == 2

\* The override config.BATCH_SIZE = 10 of run_scraper_add1.py, scaled.
Add1BatchSize == 1

\* Largest iteration budget RUN_CONTINUOUSLY the configuration file may hold.
MaxBudget == 2

\* Cap on batch_iteration (the loop of main is unbounded when the budget is 0).
MaxIterations == 2

(* --------------------------- program values ---------------------------- *)

Records == 1..NumRecords

\* The run identifiers the launchers start main() with; keys of stop_flags.
Instances == {"main", "add1"}

\* project_id as assigned at the top of config.py.
FileProjectId == "main"

Statuses == {"pending", "processing", "complete", "failed"}

\* Values of the is_foreign column: NULL until classified ("None"), or what
\* update_batch_results binds to it.
Flags == {"None", "E", "F", "U"}

\* HTTP status codes on which scrape_language raises RuntimeError.
BlockingCodes == {403, 429, 503}

\* HTTP status codes a fetch may answer with.
StatusCodes == {200, 404, 500} \cup BlockingCodes

\* What the fetched page holds, as far as the parse of scrape_language goes.
Pages == {"English", "Other", "NoLanguageField", "NoDetails", "Malformed"}

\* Outcomes of requests.get: a response, or a requests RequestException.
Responses ==
    {[kind |-> "response", status_code |-> 200, page |-> p] : p \in Pages}
    \cup {[kind |-> "response", status_code |-> c, page |-> "NoDetails"] :
             c \in StatusCodes \ {200}}
    \cup {[kind |-> "request_exception", status_code |-> 0, page |-> "NoDetails"]}

Min(a, b) == IF a <= b THEN a ELSE b

RECURSIVE SortedSeq(_)
\* The rows of a result set, listed by ascending key.
SortedSeq(S) ==
    IF S = {} THEN <<>>
    ELSE LET m == CHOOSE x \in S : \A y \in S : x <= y
         IN  <<m>> \o SortedSeq(S \ {m})

Range(s) == {s[k] : k \in 1..Len(s)}

(* ------------------------------- state --------------------------------- *)

VARIABLES
    status,           \* title_basics.status of each record
    is_foreign,       \* title_basics.is_foreign of each record
    stop_flags,       \* stop_flags as written in the file config.py
    run_continuously, \* RUN_CONTINUOUSLY as written in the file config.py
    pc,               \* position of each instance in main / process_batch
    project_id,       \* config.project_id in the memory of each instance
    batch_size,       \* config.BATCH_SIZE in the memory of each instance
    batch_iteration,  \* local batch_iteration of main
    conn,             \* whether the instance holds an open connection
    titles,           \* rows returned by the SELECT of fetch_titles
    results,          \* local results of process_batch
    idx,              \* titles the for loop of process_batch has been through
    lines,            \* the lines read by the finalization of main
    exit_reason,      \* why the loop of main ended
    finalized,        \* outcome of the stop-flag reset of main
    claimedBy,        \* history: instances fetch_titles returned the record to
    blockedAt,        \* history: position in the batch of the first blocking response
    wbCalls,          \* history: calls of update_batch_results in the batch
    delayed,          \* history: the batch ended with the extra batch delay
    softAt,           \* history: position in the batch of the first soft failure
    lastError,        \* history: what raised the exception that ended the loop
    rolledBack        \* history: statements the failed store call had executed

vars == <<status, is_foreign, stop_flags, run_continuously, pc, project_id,
          batch_size, batch_iteration, conn, titles, results, idx, lines,
          exit_reason, finalized, claimedBy, blockedAt, wbCalls, delayed,
          softAt, lastError, rolledBack>>

storeVars == <<status, is_foreign>>
fileVars == <<stop_flags, run_continuously>>
histVars == <<claimedBy, blockedAt, wbCalls>>
batchVars == <<titles, results, idx>>

\* Positions inside the try block of main.
RunningPcs == {"loop", "select", "update", "classify", "writeback", "reload"}

(* ------------------------- imdb_scraper.py ----------------------------- *)

Return(v) == [kind |-> "return", value |-> v, exc |-> "none"]
Raise(e) == [kind |-> "raise", value |-> "None", exc |-> e]

\* The body of the try block of scrape_language: what it returns or raises.
\* A status code that is neither blocking nor 200 leaves the block without a
\* return statement, so the function returns None.
TryBody(response) ==
    IF response.kind = "request_exception" THEN Raise("RequestException")
    ELSE IF response.status_code \in BlockingCodes THEN Raise("RuntimeError")
    ELSE IF response.status_code = 200 THEN
        CASE response.page = "English" -> Return("E")
          [] response.page = "Other" -> Return("F")
          [] response.page = "Malformed" -> Raise("AttributeError")
          [] OTHER -> Return("U")
    ELSE Return("None")

\* The soft classification failures: a transport error, or a fetched page
\* (status 200) in which no language field is found.
SoftFailure(response) ==
    \/ response.kind = "request_exception"
    \/ /\ response.kind = "response" /\ response.status_code = 200
       /\ response.page \in {"NoLanguageField", "NoDetails", "Malformed"}

\* The exception classes caught by "except Exception".
ExceptionClasses == {"RequestException", "RuntimeError", "AttributeError"}

\* Variant of scrape_language: the RequestException is raised again.
scrape_languageReraise(response) ==
    LET t == TryBody(response)
    IN  IF t.kind = "raise" /\ t.exc = "RequestException" THEN t
        ELSE IF t.kind = "raise" /\ t.exc \in ExceptionClasses THEN Return("U")
        ELSE t

\* scrape_language: the try block followed by its two except clauses.
scrape_language(response) ==
    LET t == TryBody(response)
    IN  IF t.kind = "raise" /\ t.exc = "RequestException" THEN Return("U")
        ELSE IF t.kind = "raise" /\ t.exc \in ExceptionClasses THEN Return("U")
        ELSE t

(* --------------------------- controller.py ----------------------------- *)

\* Variant of TitleStatus: complete only for a recognised language.
TitleStatusStrict(flag) == IF flag \in {"E", "F"} THEN "complete" ELSE "failed"

\* The status process_title derives from the classification.
TitleStatus(flag) == IF flag # "U" THEN "complete" ELSE "failed"

\* process_title: the result tuple, or the exception scrape_language raised.
process_title(tconst, response) ==
    LET r == scrape_language(response)
    IN  IF r.kind = "raise" THEN r
        ELSE Return(<<tconst, r.value, TitleStatus(r.value)>>)

\* config.stop_flags.get(config.project_id, False) on the reloaded module.
StopFlagValue(flags, pid) == IF pid \in DOMAIN flags THEN flags[pid] ELSE FALSE

\* Variant of BudgetReached: the comparison is strict.
BudgetReachedStrict(budget, iteration) == budget > 0 /\ iteration > budget

\* config.RUN_CONTINUOUSLY > 0 and batch_iteration >= config.RUN_CONTINUOUSLY.
BudgetReached(budget, iteration) == budget > 0 /\ iteration >= budget

\* The lines main writes back: "True" becomes "False" on the line of pid.
ResetFlag(ls, pid) ==
    [id \in DOMAIN ls |-> IF id = pid /\ ls[id] THEN FALSE ELSE ls[id]]

(* --------------------------- db_connector.py --------------------------- *)

\* Variant of SelectPending: WHERE status <> 'complete'.
SelectNotComplete(st, limit) ==
    LET cand == {r \in Records : st[r] # "complete"}
    IN  {S \in SUBSET cand : Cardinality(S) = Min(limit, Cardinality(cand))}

\* Variant of SelectPending: the LIMIT is dropped.
SelectPendingNoLimit(st, limit) ==
    {{r \in Records : st[r] = "pending"}}

\* Variant of SelectPending: the WHERE clause is dropped.
SelectNoWhere(st, limit) ==
    {S \in SUBSET Records : Cardinality(S) = Min(limit, Cardinality(Records))}

\* FETCH_TITLES_SQL: the row sets SELECT ... WHERE status = 'pending' LIMIT n
\* may return (no ORDER BY: any n of the pending rows).
SelectPending(st, limit) ==
    LET pending == {r \in Records : st[r] = "pending"}
    IN  {S \in SUBSET pending : Cardinality(S) = Min(limit, Cardinality(pending))}

\* UPDATE_STATUS_SQL: status = 'processing' WHERE tconst IN (ids).
MarkProcessing(st, ids) ==
    [r \in Records |-> IF r \in ids THEN "processing" ELSE st[r]]

RECURSIVE ApplyResults(_, _)
\* UPDATE_BATCH_RESULTS_SQL executed for each result in turn; row is the pair
\* <<status, is_foreign>> of every record.
ApplyResults(row, res) ==
    IF res = <<>> THEN row
    ELSE LET e == Head(res)
         IN  ApplyResults([row EXCEPT ![e[1]] = <<e[3], e[2]>>], Tail(res))

(* ------------------------------- Init ---------------------------------- *)

NoLines == [id \in Instances |-> FALSE]

\* The store holds pending, unclassified records; config.py has every stop
\* flag False; no launcher has run.
InitCommon ==
    /\ status = [r \in Records |-> "pending"]
    /\ is_foreign = [r \in Records |-> "None"]
    /\ stop_flags = [id \in Instances |-> FALSE]
    /\ project_id = [i \in Instances |-> FileProjectId]
    /\ batch_size = [i \in Instances |-> FileBatchSize]
    /\ batch_iteration = [i \in Instances |-> 0]
    /\ conn = [i \in Instances |-> FALSE]
    /\ titles = [i \in Instances |-> <<>>]
    /\ results = [i \in Instances |-> <<>>]
    /\ idx = [i \in Instances |-> 0]
    /\ lines = [i \in Instances |-> NoLines]
    /\ exit_reason = [i \in Instances |-> "none"]
    /\ finalized = [i \in Instances |-> "none"]
    /\ claimedBy = [r \in Records |-> {}]
    /\ blockedAt = [i \in Instances |-> 0]
    /\ wbCalls = [i \in Instances |-> 0]
    /\ delayed = [i \in Instances |-> FALSE]
    /\ softAt = [i \in Instances |-> 0]
    /\ lastError = [i \in Instances |-> "none"]
    /\ rolledBack = [i \in Instances |-> 0]

\* Both launchers may be started; RUN_CONTINUOUSLY is 0 as in config.py.
Init ==
    /\ InitCommon
    /\ run_continuously = 0
    /\ pc = [i \in Instances |-> "init"]

\* Only one launcher is ever started; config.py holds some iteration budget.
InitSingle ==
    /\ InitCommon
    /\ run_continuously \in 0..MaxBudget
    /\ \E one \in Instances : pc = [i \in Instances |-> IF i = one THEN "init" ELSE "off"]

(* --------------------------- launchers, main --------------------------- *)

\* run_scraper.py / run_scraper_add1.py up to the first statements of main:
\* add1 overrides config.BATCH_SIZE, main() sets config.project_id.
Start(i) ==
    /\ pc[i] = "init"
    /\ pc' = [pc EXCEPT ![i] = "loop"]
    /\ project_id' = [project_id EXCEPT ![i] = i]
    /\ batch_size' = [batch_size EXCEPT ![i] =
                         IF i = "add1" THEN Add1BatchSize ELSE FileBatchSize]
    /\ batch_iteration' = [batch_iteration EXCEPT ![i] = 0]
    /\ UNCHANGED <<rolledBack, storeVars, fileVars, conn, batchVars, lines,
                   exit_reason, finalized, histVars, delayed, softAt, lastError>>

\* Variant of LeaveLoop: the connection is not closed on the way out.
LeaveLoopLeak(i, reason) ==
    /\ pc' = [pc EXCEPT ![i] = "finalize"]
    /\ exit_reason' = [exit_reason EXCEPT ![i] = reason]
    /\ UNCHANGED conn
    /\ wbCalls' = [wbCalls EXCEPT ![i] = 0]
    /\ delayed' = [delayed EXCEPT ![i] = FALSE]

\* An exception or interrupt leaves process_batch (closing the connection in
\* Database.__exit__) and the loop of main, which goes on to its finally block.
LeaveLoop(i, reason) ==
    /\ pc' = [pc EXCEPT ![i] = "finalize"]
    /\ exit_reason' = [exit_reason EXCEPT ![i] = reason]
    /\ conn' = [conn EXCEPT ![i] = FALSE]
    /\ wbCalls' = [wbCalls EXCEPT ![i] = 0]
    /\ delayed' = [delayed EXCEPT ![i] = FALSE]

\* The locals of process_batch are gone once it has returned or raised.
ClearBatch(i) ==
    /\ titles' = [titles EXCEPT ![i] = <<>>]
    /\ results' = [results EXCEPT ![i] = <<>>]
    /\ idx' = [idx EXCEPT ![i] = 0]
    /\ blockedAt' = [blockedAt EXCEPT ![i] = 0]
    /\ softAt' = [softAt EXCEPT ![i] = 0]

\* batch_iteration += 1; process_batch opens the connection (Database.__enter__).
BatchStart(i) ==
    /\ pc[i] = "loop"
    /\ batch_iteration[i] < MaxIterations
    /\ batch_iteration' = [batch_iteration EXCEPT ![i] = @ + 1]
    /\ conn' = [conn EXCEPT ![i] = TRUE]
    /\ pc' = [pc EXCEPT ![i] = "select"]
    /\ ClearBatch(i)
    /\ wbCalls' = [wbCalls EXCEPT ![i] = 0]
    /\ delayed' = [delayed EXCEPT ![i] = FALSE]
    /\ UNCHANGED <<rolledBack, storeVars, fileVars, project_id, batch_size, lines,
                   exit_reason, finalized, claimedBy, lastError>>

\* mariadb.connect fails in Database.__enter__: the error is raised to main.
ConnectFail(i) ==
    /\ pc[i] = "loop"
    /\ batch_iteration[i] < MaxIterations
    /\ batch_iteration' = [batch_iteration EXCEPT ![i] = @ + 1]
    /\ LeaveLoop(i, "fatal_error")
    /\ ClearBatch(i)
    /\ lastError' = [lastError EXCEPT ![i] = "store"]
    /\ UNCHANGED <<rolledBack, storeVars, fileVars, project_id, batch_size, lines,
                   finalized, claimedBy>>

(* ---------------------------- fetch_titles ----------------------------- *)

\* The SELECT of fetch_titles. An empty result is returned at once and
\* process_batch returns before the loop, the writeback and the batch delay.
FetchSelect(i) ==
    /\ pc[i] = "select"
    /\ \E S \in SelectPending(status, batch_size[i]) :
          /\ titles' = [titles EXCEPT ![i] = SortedSeq(S)]
          /\ IF S = {}
             THEN /\ pc' = [pc EXCEPT ![i] = "reload"]
                  /\ conn' = [conn EXCEPT ![i] = FALSE]
             ELSE /\ pc' = [pc EXCEPT ![i] = "update"]
                  /\ UNCHANGED conn
    /\ UNCHANGED <<rolledBack, storeVars, fileVars, project_id, batch_size, batch_iteration,
                   results, idx, lines, exit_reason, finalized, histVars,
                   delayed, softAt, lastError>>

\* The UPDATE of fetch_titles and its commit; the rows are returned.
FetchUpdate(i) ==
    /\ pc[i] = "update"
    /\ status' = MarkProcessing(status, Range(titles[i]))
    /\ claimedBy' = [r \in Records |->
                        IF r \in Range(titles[i]) THEN claimedBy[r] \cup {i}
                        ELSE claimedBy[r]]
    /\ pc' = [pc EXCEPT ![i] = "classify"]
    /\ UNCHANGED <<rolledBack, is_foreign, fileVars, project_id, batch_size, batch_iteration,
                   conn, batchVars, lines, exit_reason, finalized,
                   blockedAt, wbCalls, delayed, softAt, lastError>>

\* Variant of StoreError: the error is logged and the batch ends as usual.
StoreErrorSwallowed(i) ==
    /\ pc[i] \in {"select", "update", "writeback"}
    /\ pc' = [pc EXCEPT ![i] = "reload"]
    /\ conn' = [conn EXCEPT ![i] = FALSE]
    /\ ClearBatch(i)
    /\ lastError' = [lastError EXCEPT ![i] = "store"]
    /\ UNCHANGED <<rolledBack, storeVars, fileVars, project_id, batch_size, batch_iteration,
                   lines, exit_reason, finalized, claimedBy, wbCalls, delayed>>

\* mariadb.connect(**config.DB_CONFIG): DB_CONFIG holds no autocommit key, and
\* the connector opens the connection with autocommit off.
Autocommit == FALSE

\* Variant of CloseConnection: every executed statement is kept.
CloseConnectionAutocommit(committed, executed) == executed

\* self.conn.close() in Database.__exit__ on a connection with statements
\* executed since the last commit: the open transaction is rolled back, the
\* store keeps its committed rows.
CloseConnection(committed, executed) == IF Autocommit THEN executed ELSE committed

\* Where a failing store call may have got to: n statements executed since
\* the last commit and the rows as those statements left them. The SELECT of
\* fetch_titles writes nothing; its UPDATE fails itself or in the commit;
\* update_batch_results fails in the row update k+1 or, after all, in the commit.
ExecutedBeforeError(i) ==
    LET row == [r \in Records |-> <<status[r], is_foreign[r]>>]
    IN  CASE pc[i] = "update" ->
                 {[n |-> 0, row |-> row],
                  [n |-> 1,
                   row |-> [r \in Records |->
                               <<MarkProcessing(status, Range(titles[i]))[r],
                                 is_foreign[r]>>]]}
          [] pc[i] = "writeback" ->
                 {[n |-> k, row |-> ApplyResults(row, SubSeq(results[i], 1, k))] :
                      k \in 0..Len(results[i])}
          [] OTHER -> {[n |-> 0, row |-> row]}

\* A mariadb.Error in fetch_titles or update_batch_results: the error is
\* raised through the with block, whose __exit__ closes the connection
\* without a commit, to main.
StoreError(i) ==
    /\ pc[i] \in {"select", "update", "writeback"}
    /\ \E e \in ExecutedBeforeError(i) :
          LET row == CloseConnection([r \in Records |-> <<status[r], is_foreign[r]>>],
                                     e.row)
          IN  /\ status' = [r \in Records |-> row[r][1]]
              /\ is_foreign' = [r \in Records |-> row[r][2]]
              /\ rolledBack' = [rolledBack EXCEPT ![i] = e.n]
    /\ LeaveLoop(i, "fatal_error")
    /\ ClearBatch(i)
    /\ lastError' = [lastError EXCEPT ![i] = "store"]
    /\ UNCHANGED <<fileVars, project_id, batch_size, batch_iteration,
                   lines, finalized, claimedBy>>

(* ---------------------------- process_batch ---------------------------- *)

\* Variant of AppendResult: failed classifications are not reported.
AppendResultSkipFailed(res, result) ==
    IF result[3] = "failed" THEN res ELSE Append(res, result)

\* results.append(result) of process_batch.
AppendResult(res, result) == Append(res, result)

\* One turn of the for loop: process_title on the next title, append the
\* result, delay. An exception out of process_title leaves the batch and
\* the loop of main; titles, results and idx then stay as they were when the
\* batch was given up.
ProcessTitle(i) ==
    /\ pc[i] = "classify"
    /\ \E response \in Responses :
          LET k == idx[i] + 1
              r == process_title(titles[i][k], response)
              blocked == IF blockedAt[i] = 0 /\ response.status_code \in BlockingCodes
                         THEN k ELSE blockedAt[i]
              soft == IF softAt[i] = 0 /\ SoftFailure(response) THEN k ELSE softAt[i]
          IN  /\ blockedAt' = [blockedAt EXCEPT ![i] = blocked]
              /\ softAt' = [softAt EXCEPT ![i] = soft]
              /\ IF r.kind = "raise"
                 THEN /\ LeaveLoop(i, "fatal_error")
                      /\ lastError' = [lastError EXCEPT ![i] = "classifier"]
                      /\ UNCHANGED <<titles, results, idx>>
                 ELSE /\ results' = [results EXCEPT ![i] = AppendResult(@, r.value)]
                      /\ idx' = [idx EXCEPT ![i] = k]
                      /\ pc' = [pc EXCEPT ![i] =
                                   IF k = Len(titles[i]) THEN "writeback" ELSE "classify"]
                      /\ UNCHANGED <<conn, titles, exit_reason, wbCalls, delayed,
                                     lastError>>
    /\ UNCHANGED <<rolledBack, storeVars, fileVars, project_id, batch_size, batch_iteration,
                   lines, finalized, claimedBy>>

\* Variant of UpdateBatchResults: the row updates are not committed.
UpdateBatchResultsNoCommit(i) ==
    /\ pc[i] = "writeback"
    /\ wbCalls' = [wbCalls EXCEPT ![i] = @ + 1]
    /\ conn' = [conn EXCEPT ![i] = FALSE]
    /\ pc' = [pc EXCEPT ![i] = "reload"]
    /\ delayed' = [delayed EXCEPT ![i] = TRUE]
    /\ UNCHANGED <<rolledBack, storeVars, fileVars, project_id, batch_size,
                   batch_iteration, batchVars, lines, exit_reason, finalized,
                   claimedBy, blockedAt, softAt, lastError>>

\* update_batch_results and its commit, the end of the with block and the
\* extra batch delay.
UpdateBatchResults(i) ==
    /\ pc[i] = "writeback"
    /\ LET row == ApplyResults([r \in Records |-> <<status[r], is_foreign[r]>>],
                               results[i])
       IN  /\ status' = [r \in Records |-> row[r][1]]
           /\ is_foreign' = [r \in Records |-> row[r][2]]
    /\ wbCalls' = [wbCalls EXCEPT ![i] = @ + 1]
    /\ conn' = [conn EXCEPT ![i] = FALSE]
    /\ pc' = [pc EXCEPT ![i] = "reload"]
    /\ delayed' = [delayed EXCEPT ![i] = TRUE]
    /\ UNCHANGED <<rolledBack, fileVars, project_id, batch_size, batch_iteration, batchVars,
                   lines, exit_reason, finalized, claimedBy, blockedAt, softAt,
                   lastError>>

(* ------------------------------- main ---------------------------------- *)

\* importlib.reload(config) re-executes config.py in the module's namespace
\* (project_id, BATCH_SIZE, stop_flags, RUN_CONTINUOUSLY take the file's
\* values); then the stop flag and the iteration budget are checked.
ReloadAndCheck(i) ==
    /\ pc[i] = "reload"
    /\ project_id' = [project_id EXCEPT ![i] = FileProjectId]
    /\ batch_size' = [batch_size EXCEPT ![i] = FileBatchSize]
    /\ IF StopFlagValue(stop_flags, project_id'[i])
       THEN /\ exit_reason' = [exit_reason EXCEPT ![i] = "stopped_by_flag"]
            /\ pc' = [pc EXCEPT ![i] = "finalize"]
       ELSE IF BudgetReached(run_continuously, batch_iteration[i])
       THEN /\ exit_reason' = [exit_reason EXCEPT ![i] = "stopped_by_budget"]
            /\ pc' = [pc EXCEPT ![i] = "finalize"]
       ELSE /\ pc' = [pc EXCEPT ![i] = "loop"]
            /\ UNCHANGED exit_reason
    /\ ClearBatch(i)
    /\ wbCalls' = [wbCalls EXCEPT ![i] = 0]
    /\ delayed' = [delayed EXCEPT ![i] = FALSE]
    /\ UNCHANGED <<rolledBack, storeVars, fileVars, batch_iteration, conn, lines,
                   finalized, claimedBy, lastError>>

\* importlib.reload raises (config.py cannot be read): except Exception.
ReloadFail(i) ==
    /\ pc[i] = "reload"
    /\ LeaveLoop(i, "fatal_error")
    /\ ClearBatch(i)
    /\ lastError' = [lastError EXCEPT ![i] = "reload"]
    /\ UNCHANGED <<rolledBack, storeVars, fileVars, project_id, batch_size, batch_iteration,
                   lines, finalized, claimedBy>>

\* KeyboardInterrupt anywhere inside the try block: except KeyboardInterrupt.
Interrupt(i) ==
    /\ pc[i] \in RunningPcs
    /\ LeaveLoop(i, "interrupt")
    /\ ClearBatch(i)
    /\ lastError' = [lastError EXCEPT ![i] = "interrupt"]
    /\ UNCHANGED <<rolledBack, storeVars, fileVars, project_id, batch_size, batch_iteration,
                   lines, finalized, claimedBy>>

\* finally: config.py is read into lines.
FinalizeRead(i) ==
    /\ pc[i] = "finalize"
    /\ lines' = [lines EXCEPT ![i] = stop_flags]
    /\ pc' = [pc EXCEPT ![i] = "finalize_write"]
    /\ UNCHANGED <<rolledBack, storeVars, fileVars, project_id, batch_size, batch_iteration,
                   conn, batchVars, exit_reason, finalized, histVars, delayed,
                   softAt, lastError>>

\* finally: the lines are written back, the flag line of config.project_id
\* with True replaced by False; main returns.
FinalizeWrite(i) ==
    /\ pc[i] = "finalize_write"
    /\ stop_flags' = ResetFlag(lines[i], project_id[i])
    /\ lines' = [lines EXCEPT ![i] = NoLines]
    /\ finalized' = [finalized EXCEPT ![i] = "reset"]
    /\ pc' = [pc EXCEPT ![i] = "done"]
    /\ lastError' = [lastError EXCEPT ![i] = "none"]
    /\ rolledBack' = [rolledBack EXCEPT ![i] = 0]
    /\ UNCHANGED <<storeVars, run_continuously, project_id, batch_size,
                   batch_iteration, conn, batchVars, exit_reason, histVars,
                   delayed, softAt>>

\* Variant of FinalizeFail: the failure replaces the reason the loop ended.
FinalizeFailMasks(i) ==
    /\ pc[i] \in {"finalize", "finalize_write"}
    /\ lines' = [lines EXCEPT ![i] = NoLines]
    /\ finalized' = [finalized EXCEPT ![i] = "failed"]
    /\ exit_reason' = [exit_reason EXCEPT ![i] = "fatal_error"]
    /\ pc' = [pc EXCEPT ![i] = "done"]
    /\ lastError' = [lastError EXCEPT ![i] = "none"]
    /\ rolledBack' = [rolledBack EXCEPT ![i] = 0]
    /\ UNCHANGED <<storeVars, fileVars, project_id, batch_size, batch_iteration,
                   conn, batchVars, histVars, delayed, softAt>>

\* finally: opening config.py for reading or for writing fails; the failure
\* is logged and main returns.
FinalizeFail(i) ==
    /\ pc[i] \in {"finalize", "finalize_write"}
    /\ lines' = [lines EXCEPT ![i] = NoLines]
    /\ finalized' = [finalized EXCEPT ![i] = "failed"]
    /\ pc' = [pc EXCEPT ![i] = "done"]
    /\ lastError' = [lastError EXCEPT ![i] = "none"]
    /\ rolledBack' = [rolledBack EXCEPT ![i] = 0]
    /\ UNCHANGED <<storeVars, fileVars, project_id, batch_size, batch_iteration,
                   conn, batchVars, exit_reason, histVars, delayed, softAt>>

(* ---------------------------- environment ------------------------------ *)

\* The operator edits config.py and sets the stop flag of a run identifier.
SetStopFlag(id) ==
    /\ ~stop_flags[id]
    /\ stop_flags' = [stop_flags EXCEPT ![id] = TRUE]
    /\ UNCHANGED <<rolledBack, storeVars, run_continuously, pc, project_id, batch_size,
                   batch_iteration, conn, batchVars, lines, exit_reason,
                   finalized, histVars, delayed, softAt, lastError>>

(* --------------------------- specifications ---------------------------- *)

Next ==
    \/ \E i \in Instances : Start(i)
    \/ \E i \in Instances : BatchStart(i)
    \/ \E i \in Instances : ConnectFail(i)
    \/ \E i \in Instances : FetchSelect(i)
    \/ \E i \in Instances : FetchUpdate(i)
    \/ \E i \in Instances : StoreError(i)
    \/ \E i \in Instances : ProcessTitle(i)
    \/ \E i \in Instances : UpdateBatchResults(i)
    \/ \E i \in Instances : ReloadAndCheck(i)
    \/ \E i \in Instances : ReloadFail(i)
    \/ \E i \in Instances : Interrupt(i)
    \/ \E i \in Instances : FinalizeRead(i)
    \/ \E i \in Instances : FinalizeWrite(i)
    \/ \E i \in Instances : FinalizeFail(i)
    \/ \E id \in Instances : SetStopFlag(id)

\* The two launchers running against the same store and config.py.
Spec == Init /\ [][Next]_vars

\* A single controller instance (either launcher) on the store.
SpecSingle == InitSingle /\ [][Next]_vars

\* A single launcher with RUN_CONTINUOUSLY = 0 (no iteration budget).
InitLive ==
    /\ InitCommon
    /\ run_continuously = 0
    /\ \E one \in Instances : pc = [i \in Instances |-> IF i = one THEN "init" ELSE "off"]

\* The steps of the controller itself: no database error, no interrupt, no
\* failing reload, nobody editing config.py.
NextLive ==
    \/ \E i \in Instances : Start(i)
    \/ \E i \in Instances : BatchStart(i)
    \/ \E i \in Instances : FetchSelect(i)
    \/ \E i \in Instances : FetchUpdate(i)
    \/ \E i \in Instances : ProcessTitle(i)
    \/ \E i \in Instances : UpdateBatchResults(i)
    \/ \E i \in Instances : ReloadAndCheck(i)

\* A single instance whose steps are taken whenever they stay possible (the
\* process is scheduled; every call of main and process_batch returns).
SpecLive == InitLive /\ [][NextLive]_vars /\ WF_vars(NextLive)

TypeOK ==
    /\ status \in [Records -> Statuses]
    /\ is_foreign \in [Records -> Flags]
    /\ stop_flags \in [Instances -> BOOLEAN]
    /\ \A i \in Instances :
          /\ Len(results[i]) <= Len(titles[i])
          /\ idx[i] \in 0..Len(titles[i])
          /\ Len(titles[i]) <= batch_size[i]
          /\ batch_iteration[i] \in 0..MaxIterations
          /\ rolledBack[i] \in 0..NumRecords

(* ------------------------------ claims --------------------------------- *)

PendingRecords == {r \in Records : status[r] = "pending"}

StoppedPcs == {"finalize", "finalize_write", "done"}

\* C1: once an instance has received a blocking response (403/429/503) it is
\* out of the loop of main with the fatal-error stop reason: it classifies no
\* further record and starts no further batch.
C1_BlockingStopsRun ==
    \A i \in Instances :
        blockedAt[i] # 0 => pc[i] \in StoppedPcs /\ exit_reason[i] = "fatal_error"

\* C2: when the k-th record of a batch got a blocking response, the records
\* k+1..n of that batch are not classified, stay 'processing' and keep their
\* language flag.
C2_RestOfBatchUntouched ==
    \A i \in Instances :
        blockedAt[i] # 0 =>
            /\ idx[i] <= blockedAt[i]
            /\ \A j \in (blockedAt[i] + 1)..Len(titles[i]) :
                  /\ status[titles[i][j]] = "processing"
                  /\ is_foreign[titles[i][j]] = "None"

\* C3: a record whose status is 'complete' has language flag 'E' or 'F'.
C3_CompleteHasLanguage ==
    \A r \in Records : status[r] = "complete" => is_foreign[r] \in {"E", "F"}

\* C4: a record whose status is 'failed' has language flag 'U'.
C4_FailedIsUnknown ==
    \A r \in Records : status[r] = "failed" => is_foreign[r] = "U"

C4_Witness == \E r \in Records : status[r] = "failed" /\ is_foreign[r] = "U"

\* C5: with a single instance, every change of a record's status is
\* pending -> processing, processing -> complete or processing -> failed.
C5_StatusMovesForward ==
    [][\A r \in Records :
          status'[r] # status[r] =>
              <<status[r], status'[r]>> \in {<<"pending", "processing">>,
                                            <<"processing", "complete">>,
                                            <<"processing", "failed">>}]_vars

C5_Witness ==
    \E r1, r2 \in Records : status[r1] = "complete" /\ status[r2] = "failed"

\* C6: no record is returned by fetch_titles to both instances.
C6_NoDoubleClaim ==
    \A r \in Records : Cardinality(claimedBy[r]) <= 1

\* C7: when a batch that claimed n >= 1 records has ended without a blocking
\* response, store error or interrupt, update_batch_results has been called
\* exactly once, with n entries, the j-th entry for the j-th claimed record.
C7_WritebackCoversBatch ==
    \A i \in Instances :
        (pc[i] = "reload" /\ titles[i] # <<>> /\ blockedAt[i] = 0) =>
            /\ wbCalls[i] = 1
            /\ Len(results[i]) = Len(titles[i])
            /\ \A j \in 1..Len(titles[i]) : results[i][j][1] = titles[i][j]

C7_Witness ==
    \E i \in Instances :
        /\ pc[i] = "reload" /\ Len(titles[i]) = 2 /\ blockedAt[i] = 0
        /\ wbCalls[i] = 1
        /\ \E j \in 1..2 : results[i][j][3] = "failed"

\* C8: fetch_titles(N) on a store with p pending records returns min(N, p)
\* records, all pending before and processing after, and changes no other
\* record; with p = 0 it returns the empty list, changes nothing, and
\* process_batch ends without a call of update_batch_results.
C8_FetchTitles ==
    [][\A i \in Instances :
          /\ (pc[i] = "update" /\ pc'[i] = "classify") =>
                /\ Len(titles'[i]) = Min(batch_size[i], Cardinality(PendingRecords))
                /\ Cardinality(Range(titles'[i])) = Len(titles'[i])
                /\ Range(titles'[i]) \subseteq PendingRecords
                /\ \A r \in Records :
                      status'[r] = IF r \in Range(titles'[i]) THEN "processing"
                                   ELSE status[r]
                /\ is_foreign' = is_foreign
          /\ (pc[i] = "select" /\ PendingRecords = {} /\ pc'[i] \in {"update", "reload"}) =>
                /\ titles'[i] = <<>>
                /\ status' = status /\ is_foreign' = is_foreign
                /\ pc'[i] = "reload" /\ wbCalls'[i] = 0]_vars

C8_Witness ==
    \E i \in Instances :
        /\ pc[i] = "classify" /\ idx[i] = 0
        /\ Len(titles[i]) = batch_size[i]
        /\ PendingRecords # {}

\* C9: for the run identifier i of every instance: when a batch has finished
\* and the stop flag of i is True in config.py as main re-reads it, main ends
\* as stopped by flag (and starts no further batch).
C9_OwnFlagStops ==
    [][\A i \in Instances :
          (pc[i] = "reload" /\ pc'[i] # "reload" /\ stop_flags[i]
             /\ exit_reason'[i] \notin {"fatal_error", "interrupt"}) =>
              pc'[i] = "finalize" /\ exit_reason'[i] = "stopped_by_flag"]_vars

\* C10: when main(i) returns and its finalization did not fail on config.py,
\* the stop flag stored for i reads False.
C10_OwnFlagReset ==
    [][\A i \in Instances :
          (pc[i] # "done" /\ pc'[i] = "done" /\ finalized'[i] = "reset") =>
              ~stop_flags'[i]]_vars

\* The step in which main, after a batch, reloads the configuration and
\* decides by flag and budget (not an exception or interrupt at that point).
Decides(i) ==
    /\ pc[i] = "reload" /\ pc'[i] # "reload"
    /\ exit_reason'[i] \notin {"fatal_error", "interrupt"}

NoFlagSet == \A id \in Instances : ~stop_flags[id]

\* C11: with budget N > 0 and no stop flag set, main goes on after each of
\* the batches 1..N-1 and stops by budget after batch N; a run stopped by
\* budget has run exactly N > 0 batches, so with budget 0 no run ever stops
\* by budget.
C11_BudgetStops ==
    /\ [](\A i \in Instances :
            exit_reason[i] = "stopped_by_budget" =>
                run_continuously > 0 /\ batch_iteration[i] = run_continuously)
    /\ [][\A i \in Instances :
            (Decides(i) /\ NoFlagSet) =>
                IF run_continuously > 0 /\ batch_iteration[i] = run_continuously
                THEN pc'[i] = "finalize" /\ exit_reason'[i] = "stopped_by_budget"
                ELSE /\ pc'[i] = "loop" /\ exit_reason'[i] = "none"
                     /\ (run_continuously = 0 \/ batch_iteration[i] < run_continuously)]_vars

C11_Witness ==
    \E i \in Instances :
        /\ exit_reason[i] = "stopped_by_budget"
        /\ run_continuously = 2 /\ batch_iteration[i] = 2
        /\ NoFlagSet

\* C12: whenever main goes from a finished batch to the next turn of its
\* loop, the batch ended with the extra batch delay.
C12_DelayBetweenBatches ==
    [][\A i \in Instances :
          (pc[i] = "reload" /\ pc'[i] = "loop") => delayed[i]]_vars

\* C13: a soft classification failure of the k-th record of a batch gives that
\* record the result ('U', 'failed') and does not end the batch or the loop:
\* the other records are classified, the batch is written back once with every
\* record stored as its own result says.
C13_SoftFailureIsolated ==
    \A i \in Instances :
        softAt[i] # 0 =>
            /\ pc[i] \in {"classify", "writeback", "reload"}
            /\ exit_reason[i] = "none"
            /\ idx[i] >= softAt[i]
            /\ results[i][softAt[i]] = <<titles[i][softAt[i]], "U", "failed">>
            /\ pc[i] = "reload" =>
                  /\ wbCalls[i] = 1
                  /\ Len(results[i]) = Len(titles[i])
                  /\ \A j \in 1..Len(titles[i]) :
                        /\ status[titles[i][j]] = results[i][j][3]
                        /\ is_foreign[titles[i][j]] = results[i][j][2]

C13_Witness ==
    \E i \in Instances :
        /\ pc[i] = "reload" /\ softAt[i] = 1 /\ Len(titles[i]) = 2
        /\ status[titles[i][1]] = "failed" /\ status[titles[i][2]] = "complete"

\* C14: after a database error in the connect, fetch_titles or
\* update_batch_results the instance is out of the loop with the fatal-error
\* reason and no open connection; an instance out of the loop never starts a
\* batch again, and main returns only after its finalization has run.
C14_StoreErrorIsFatal ==
    /\ [](\A i \in Instances :
            /\ lastError[i] = "store" =>
                  /\ pc[i] \in {"finalize", "finalize_write"}
                  /\ exit_reason[i] = "fatal_error"
                  /\ ~conn[i]
            /\ pc[i] = "done" => finalized[i] \in {"reset", "failed"})
    /\ [][\A i \in Instances :
            pc[i] \in StoppedPcs =>
                pc'[i] \in StoppedPcs /\ batch_iteration'[i] = batch_iteration[i]]_vars

C14_Witness ==
    \E i \in Instances :
        /\ pc[i] = "finalize_write" /\ lastError[i] = "store"
        /\ \E r \in Records : status[r] = "processing"

\* Positions of process_batch inside its with block.
InBatchPcs == {"select", "update", "classify", "writeback"}

\* C15: an instance holds an open connection only inside the with block of
\* process_batch: none before the first batch, between batches, or after the
\* loop has been left on any path.
C15_ConnectionScoped ==
    \A i \in Instances : conn[i] => pc[i] \in InBatchPcs

C15_Witness ==
    \E i \in Instances :
        /\ pc[i] = "finalize" /\ exit_reason[i] = "interrupt" /\ ~conn[i]
        /\ \E r \in Records : status[r] = "processing"

\* C16: every value scrape_language has returned is 'E', 'F' or 'U', and it
\* has raised only on a blocking response.
C16_ClassifierContract ==
    \A i \in Instances :
        /\ \A j \in 1..Len(results[i]) : results[i][j][2] \in {"E", "F", "U"}
        /\ lastError[i] = "classifier" => blockedAt[i] # 0

\* C17: when the stop-flag reset of the finalization fails, main returns and
\* the reason the loop ended stays what it was.
C17_FinalizeFailureLogged ==
    [][\A i \in Instances :
          (finalized[i] # "failed" /\ finalized'[i] = "failed") =>
              /\ pc'[i] = "done"
              /\ exit_reason'[i] = exit_reason[i]
              /\ exit_reason[i] \in {"stopped_by_flag", "stopped_by_budget",
                                     "interrupt", "fatal_error"}]_vars

C17_Witness ==
    \E i \in Instances :
        pc[i] = "done" /\ finalized[i] = "failed" /\ exit_reason[i] = "stopped_by_flag"

\* C18: a run with identifier i stops by flag only when the stop flag of i
\* itself is set.
C18_OnlyOwnFlagStops ==
    [][\A i \in Instances :
          (exit_reason[i] # "stopped_by_flag" /\ exit_reason'[i] = "stopped_by_flag")
              => stop_flags[i]]_vars

\* C19: the finalization of the run with identifier i leaves the stop flag
\* of every other identifier with the value it had when the finalization
\* read config.py.
C19_FinalizeKeepsOtherFlags ==
    [][\A i \in Instances :
          (pc[i] = "finalize_write" /\ pc'[i] = "done" /\ finalized'[i] = "reset") =>
              \A y \in Instances \ {i} : stop_flags'[y] = lines[i][y]]_vars

\* C20: when both the stop flag of the run and the iteration budget are
\* reached at the end of an iteration, main ends as stopped by flag.
C20_FlagBeforeBudget ==
    [][\A i \in Instances :
          (Decides(i) /\ stop_flags[i]
             /\ BudgetReached(run_continuously, batch_iteration[i])) =>
              exit_reason'[i] = "stopped_by_flag"]_vars

\* C21: update_batch_results is all-or-nothing for its batch: when it fails
\* (in a row update or in the commit) no record changes its status or language
\* flag and every record of the batch is still 'processing'; when it returns,
\* every record of the batch is 'complete' or 'failed', stored as its result says.
C21_WritebackAllOrNothing ==
    [][\A i \in Instances :
          pc[i] = "writeback" =>
              /\ lastError'[i] = "store" =>
                    /\ status' = status /\ is_foreign' = is_foreign
                    /\ \A j \in 1..Len(titles[i]) :
                          status'[titles[i][j]] = "processing"
              /\ pc'[i] = "reload" =>
                    \A j \in 1..Len(titles[i]) :
                        /\ status'[titles[i][j]] \in {"complete", "failed"}
                        /\ status'[titles[i][j]] = results[i][j][3]
                        /\ is_foreign'[titles[i][j]] = results[i][j][2]]_vars

\* update_batch_results failed after the first of two row updates.
C21_Witness ==
    \E i \in Instances :
        /\ pc[i] = "finalize" /\ lastError[i] = "store" /\ rolledBack[i] = 1
        /\ \A r \in Records : status[r] = "processing" /\ is_foreign[r] = "None"

\* C22: with a single instance, fetch_titles returns only records it has
\* never returned before, and once the instance has left the loop of main
\* (a batch given up on a store error or an interrupt included) a record that
\* is 'processing' keeps that status and its language flag and is not claimed.
C22_ClaimedAtMostOnce ==
    [][\A i \in Instances :
          /\ (pc[i] = "update" /\ pc'[i] = "classify") =>
                \A r \in Range(titles'[i]) : claimedBy[r] = {}
          /\ pc[i] \in StoppedPcs =>
                \A r \in Records :
                    status[r] = "processing" =>
                        /\ status'[r] = "processing"
                        /\ is_foreign'[r] = is_foreign[r]
                        /\ claimedBy'[r] = claimedBy[r]]_vars

\* A second batch was given up on an interrupt after the first was written
\* back: main has returned and the record of the second batch is 'processing'.
C22_Witness ==
    \E i \in Instances :
        /\ pc[i] = "done" /\ exit_reason[i] = "interrupt" /\ batch_iteration[i] = 2
        /\ \E r1, r2 \in Records :
              /\ status[r1] = "processing" /\ claimedBy[r1] = {i}
              /\ status[r2] \in {"complete", "failed"} /\ claimedBy[r2] = {i}

FinalStatuses == {"complete", "failed"}

\* C23: a single instance, no iteration budget, no stop flag set, no store
\* error, no interrupt: if no fetch ever gets a blocking response then every
\* record (all are 'pending' at the start) is eventually 'complete' or 'failed'.
C23_PendingEventuallyFinal ==
    [](\A i \in Instances : blockedAt[i] = 0)
        => \A r \in Records : <>(status[r] \in FinalStatuses)

\* Every record is final after the add1 run took two batches to get there.
C23_Witness ==
    /\ \A r \in Records : status[r] \in FinalStatuses
    /\ pc["add1"] = "reload" /\ batch_iteration["add1"] = 2
    /\ blockedAt["add1"] = 0

\* C24: with the two instances running against the same store, a record that
\* is 'complete' or 'failed' never changes its status or its language flag.
C24_FinalIsFinal ==
    [][\A r \in Records :
          status[r] \in FinalStatuses =>
              status'[r] = status[r] /\ is_foreign'[r] = is_foreign[r]]_vars

====
